---- MODULE Spec2Model ----
(***************************************************************************)
(* Model of lsst.ip.isr: ProportionalLinearizeTask (proportionalLinearize  *)
(* .py) and IsrTask (isrTask.py).                                          *)
(*                                                                         *)
(* Both tasks are single-threaded and synchronous, so every public method  *)
(* is one atomic action.  Pixel values are integers: the arithmetic of     *)
(* run is modelled exactly, floating-point rounding is not.                *)
(***************************************************************************)
EXTENDS Integers, Sequences, FiniteSets, TLC

VARIABLES
    \* ---- ProportionalLinearizeTask: the exposure and its detector ----
    image,            \* image plane, pixel -> value
    mask,             \* mask plane, pixel -> set of mask plane names
    variance,         \* variance plane, pixel -> value
    linearityType,    \* amplifier -> linearity type string
    linearityCoeffs,  \* amplifier -> tuple of linearity coefficients
    begImage,         \* image plane before the first run (begImArr in the test)
    begMask,          \* mask plane before the first run
    begVariance,      \* variance plane before the first run
    linRuns,          \* number of calls of run made so far
    linOutcome,       \* how the last call of run ended
    linLog,           \* log message written by the last call of run
    linFailedAmp,     \* amplifier at which the last run raised, 0 if none
    doCorrectResult,  \* result of the last direct call of doCorrect
    \* ---- IsrTask ----
    doWrite,                    \* config.doWrite
    transposeForInterpolation,  \* self.transposeForInterpolation
    metadata,                   \* self.metadata, key NUMNANS
    isrMethod,                  \* the method of the last call
    isrInput,                   \* the arguments / environment of the last call
    isrOutcome,                 \* how the last call ended
    isrCalls,                   \* collaborator calls made by the last call, in order
    isrMods,                    \* in-place modifications of the exposure by the last call
    isrSteps,                   \* helper methods that returned normally in the last call
    isrInvocations              \* number of calls made so far

linVars == <<image, mask, variance, linearityType, linearityCoeffs, begImage, begMask,
             begVariance, linRuns, linOutcome, linLog, linFailedAmp, doCorrectResult>>
isrVars == <<doWrite, transposeForInterpolation, metadata, isrMethod, isrInput,
             isrOutcome, isrCalls, isrMods, isrSteps, isrInvocations>>
vars == <<linVars, isrVars>>

----------------------------------------------------------------------------
(* Bounds *)

NumAmps == 2
AmpSize == 2
MaxPixel == 2
MaxRuns == 2
MaxNans == 2
MaxCalls == 2

----------------------------------------------------------------------------
(* The detector and exposure of the linearity test *)

Amps == 1..NumAmps
Pixels == 1..(NumAmps * AmpSize)

\* The amplifiers' bounding boxes tile the image.
AmpBBox(a) == ((a - 1) * AmpSize + 1)..(a * AmpSize)

LinearityTypes == {"NONE", "PROPORTIONAL", "POLYNOMIAL"}

\* Coefficient tuples an amplifier may report: too few, exactly three, and
\* more than three ("additional coefficients are ignored").
CoeffChoices ==
    {<<0, 1>>}
    \cup {<<s, c, t>> : s \in {0, 1}, c \in {0, 1}, t \in {0, 1}}
    \cup {<<0, 0, 0, 1>>}

AmpConfigs == [type : LinearityTypes, coeffs : CoeffChoices]

\* Detectors in which at most one amplifier differs from the others.
DetectorConfigs ==
    {f \in [Amps -> AmpConfigs] :
        \E k \in Amps : \A a, b \in Amps \ {k} : f[a] = f[b]}

\* The image is a ramp, as in the test, starting anywhere in 0..MaxPixel.
RampImages == {[p \in Pixels |-> (start + p) % (MaxPixel + 1)] : start \in 0..MaxPixel}

\* The mask is clear, as in the test, or one pixel is already SUSPECT and
\* every other pixel is BAD.
MaskInits ==
    {[p \in Pixels |-> {}]}
    \cup {[p \in Pixels |-> IF p = q THEN {"SUSPECT"} ELSE {"BAD"}] : q \in Pixels}

----------------------------------------------------------------------------
(* ProportionalLinearizeTask *)

\* doCorrect(detector): decided by the first amplifier.
doCorrectNoneWanted(types, coeffs) ==
    LET linType == types[1]
    IN  IF linType = "NONE" THEN "True"
        ELSE IF linType = "PROPORTIONAL"
             THEN IF Len(coeffs[1]) < 3 THEN "RuntimeError" ELSE "True"
             ELSE "RuntimeError"
doCorrectTwoCoeffs(types, coeffs) ==
    LET linType == types[1]
    IN  IF linType = "NONE" THEN "False"
        ELSE IF linType = "PROPORTIONAL"
             THEN IF Len(coeffs[1]) < 2 THEN "RuntimeError" ELSE "True"
             ELSE "RuntimeError"
doCorrect(types, coeffs) ==
    LET linType == types[1]
    IN  IF linType = "NONE" THEN "False"
        ELSE IF linType = "PROPORTIONAL"
             THEN IF Len(coeffs[1]) < 3 THEN "RuntimeError" ELSE "True"
             ELSE "RuntimeError"

\* amp.getLinearityCoeffs()[0:3]
CoeffSliceShifted(c) == IF Len(c) <= 1 THEN <<>> ELSE SubSeq(c, 2, IF Len(c) < 4 THEN Len(c) ELSE 4)
CoeffSlice(c) == IF Len(c) < 3 THEN c ELSE SubSeq(c, 1, 3)

\* FootprintSet(ampImage, Threshold(maxUncorr), "SUSPECT"): the pixels of the
\* amplifier image where uncorrIm > maxUncorr.
SuspectFootprintFromEqual(img, bbox, maxUncorr) == {p \in bbox : img[p] >= maxUncorr}
SuspectFootprint(img, bbox, maxUncorr) == {p \in bbox : img[p] > maxUncorr}

\* ampArr *= 1.0 + squareCoeff*ampArr
LinearizeArrWholeImage(img, bbox, squareCoeff) ==
    [p \in Pixels |-> img[p] * (1 + squareCoeff * img[p])]
LinearizeArr(img, bbox, squareCoeff) ==
    [p \in Pixels |-> IF p \in bbox THEN img[p] * (1 + squareCoeff * img[p]) ELSE img[p]]

\* One iteration of the loop over the amplifiers, on the state
\* st = [image, mask, outcome, didCorrect, failedAmp].
LinearizeAmpCheckLast(st, a) ==
    LET c == CoeffSlice(linearityCoeffs[a])
    IN  IF Len(c) # 3
        THEN [st EXCEPT !.outcome = "ValueError", !.failedAmp = a]
        ELSE LET squareCoeff == c[1]
                 coeff1 == c[2]
                 maxUncorr == c[3]
                 flagged == IF maxUncorr > 0
                            THEN SuspectFootprint(st.image, AmpBBox(a), maxUncorr)
                            ELSE {}
                 done == IF maxUncorr <= 0 /\ squareCoeff = 0
                         THEN st
                         ELSE [st EXCEPT
                                 !.mask = [p \in Pixels |->
                                             IF p \in flagged THEN st.mask[p] \cup {"SUSPECT"}
                                             ELSE st.mask[p]],
                                 !.image = IF squareCoeff # 0
                                           THEN LinearizeArr(st.image, AmpBBox(a), squareCoeff)
                                           ELSE st.image,
                                 !.didCorrect = TRUE]
             IN  IF coeff1 # 0
                 THEN [done EXCEPT !.outcome = "RuntimeError", !.failedAmp = a]
                 ELSE done
LinearizeAmp(st, a) ==
    LET c == CoeffSlice(linearityCoeffs[a])
    IN  IF Len(c) # 3
        THEN [st EXCEPT !.outcome = "ValueError", !.failedAmp = a]
        ELSE LET squareCoeff == c[1]
                 coeff1 == c[2]
                 maxUncorr == c[3]
                 flagged == IF maxUncorr > 0
                            THEN SuspectFootprint(st.image, AmpBBox(a), maxUncorr)
                            ELSE {}
             IN  IF coeff1 # 0
                 THEN [st EXCEPT !.outcome = "RuntimeError", !.failedAmp = a]
                 ELSE IF maxUncorr <= 0 /\ squareCoeff = 0
                 THEN st
                 ELSE [st EXCEPT
                         !.mask = [p \in Pixels |->
                                     IF p \in flagged THEN st.mask[p] \cup {"SUSPECT"}
                                     ELSE st.mask[p]],
                         !.image = IF squareCoeff # 0
                                   THEN LinearizeArr(st.image, AmpBBox(a), squareCoeff)
                                   ELSE st.image,
                         !.didCorrect = TRUE]

\* for amp in detector: ... ; an exception ends the loop.
RECURSIVE LinearizeAmpsSkipLast(_, _)
LinearizeAmpsSkipLast(st, a) ==
    IF a >= NumAmps \/ st.outcome # "ok" THEN st
    ELSE LinearizeAmpsSkipLast(LinearizeAmp(st, a), a + 1)
RECURSIVE LinearizeAmps(_, _)
LinearizeAmps(st, a) ==
    IF a > NumAmps \/ st.outcome # "ok" THEN st
    ELSE LinearizeAmps(LinearizeAmp(st, a), a + 1)

\* run(exposure), as the state it leaves behind.
LinearizeRun ==
    LET wanted == doCorrect(linearityType, linearityCoeffs)
        st0 == [image |-> image, mask |-> mask, outcome |-> "ok",
                didCorrect |-> FALSE, failedAmp |-> 0]
    IN  IF wanted = "RuntimeError"
        THEN [st0 EXCEPT !.outcome = "RuntimeError"] @@ [log |-> "none"]
        ELSE IF wanted = "False"
        THEN st0 @@ [log |-> "debug"]
        ELSE LET st == LinearizeAmps(st0, 1)
             IN  st @@ [log |-> IF st.outcome = "ok" /\ st.didCorrect THEN "info" ELSE "none"]

LinIdle ==
    /\ linRuns = 0 /\ linOutcome = "none" /\ linLog = "none" /\ linFailedAmp = 0
    /\ doCorrectResult = "none"

LinSetUp ==
    /\ \E d \in DetectorConfigs :
          /\ linearityType = [a \in Amps |-> d[a].type]
          /\ linearityCoeffs = [a \in Amps |-> d[a].coeffs]
    /\ image \in RampImages
    /\ mask \in MaskInits
    /\ variance = image
    /\ begImage = image /\ begMask = mask /\ begVariance = variance
    /\ LinIdle

\* task.run(exposure)
LinRun ==
    /\ linRuns < MaxRuns
    /\ LET r == LinearizeRun
       IN  /\ image' = r.image
           /\ mask' = r.mask
           /\ linOutcome' = IF r.outcome = "ok" THEN "returned" ELSE r.outcome
           /\ linLog' = r.log
           /\ linFailedAmp' = r.failedAmp
    /\ linRuns' = linRuns + 1
    /\ UNCHANGED <<variance, linearityType, linearityCoeffs, begImage, begMask,
                   begVariance, doCorrectResult>>

\* task.doCorrect(detector)
LinDoCorrect ==
    /\ doCorrectResult' = doCorrect(linearityType, linearityCoeffs)
    /\ UNCHANGED <<image, mask, variance, linearityType, linearityCoeffs, begImage,
                   begMask, begVariance, linRuns, linOutcome, linLog, linFailedAmp>>

----------------------------------------------------------------------------
(* IsrTask *)

DetectorKinds == {"Amp", "Ccd", "None"}
DataSets == {"raw", "bias", "dark", "flat"}

NoInput == [detector |-> "-", avail |-> {}, ampKinds |-> <<>>, nnans |-> 0]

\* The state of one call: the collaborator calls made, the in-place
\* modifications of the exposure, the helpers that returned, the task
\* metadata, and "ok" or the exception that is propagating.
NewCall == [calls |-> <<>>, mods |-> <<>>, steps |-> <<>>, meta |-> metadata,
            outcome |-> "ok"]

Call(st, by, fn, arg) ==
    [st EXCEPT !.calls = Append(@, [by |-> by, fn |-> fn, arg |-> arg])]
\* a collaborator routine that changes the masked image it is given
CallInPlace(st, by, fn, arg) ==
    [Call(st, by, fn, arg) EXCEPT !.mods = Append(@, fn)]
Raise(st, exc) == [st EXCEPT !.outcome = exc]
Return(st, by) == [st EXCEPT !.steps = Append(@, by)]

\* Statement sequencing: an exception raised by the statements before ends
\* the method, nothing is caught.
ThenSwallow(prev, next) == next
Then(prev, next) == IF prev.outcome = "ok" THEN next ELSE prev

\* checkIsAmp(detector): isinstance(detector, cameraGeom.Amp)
checkIsAmpAnyDetector(detector) == detector \in DetectorKinds
checkIsAmp(detector) == detector = "Amp"

\* biasCorrection(exposure, dataRef): its body names sensorRef, which is
\* neither a parameter, a local nor a module global.
biasCorrection(st) == Raise(st, "NameError")

\* darkCorrection(exposure, dataRef)
darkCorrection(st, avail) ==
    IF "dark" \notin avail THEN Raise(st, "LookupError")
    ELSE Return(CallInPlace(st, "darkCorrection", "isr.darkCorrection", ""),
                "darkCorrection")

\* updateVariance(exposure, ccd): its body names ccdExp, which is neither a
\* parameter, a local nor a module global.
updateVariance(st) == Raise(st, "NameError")

\* flatCorrection(exposure, dataRef)
flatCorrection(st, avail) ==
    IF "flat" \notin avail THEN Raise(st, "LookupError")
    ELSE Return(CallInPlace(st, "flatCorrection", "isr.flatCorrection", ""),
                "flatCorrection")

\* saturationCorrection(exposure, detector)
saturationCorrection(st, detector) ==
    IF ~checkIsAmp(detector) THEN Raise(st, "RuntimeError")
    ELSE Return(CallInPlace(st, "saturationCorrection", "isr.saturationCorrection", "SAT"),
                "saturationCorrection")

\* saturationDetection(exposure, detector)
saturationDetection(st, detector) ==
    IF ~checkIsAmp(detector) THEN Raise(st, "RuntimeError")
    ELSE Return(CallInPlace(st, "saturationDetection", "isr.makeThresholdMask", "SAT"),
                "saturationDetection")

\* overscanCorrection(exposure, detector)
overscanCorrection(st, detector) ==
    IF ~checkIsAmp(detector) THEN Raise(st, "RuntimeError")
    ELSE Return(CallInPlace(st, "overscanCorrection", "isr.overscanCorrection", ""),
                "overscanCorrection")

\* saturationInterpolation(exposure)
saturationInterpolation(st) ==
    LET by == "saturationInterpolation"
    IN  IF transposeForInterpolation
        THEN LET s1 == Call(st, by, "isr.transposeMaskedImage", "")
                 s2 == CallInPlace(s1, by, "isr.interpolateFromMask", "SAT")
                 s3 == Call(s2, by, "isr.transposeMaskedImage", "")
                 s4 == [s3 EXCEPT !.mods = Append(@, "setMaskedImage")]
             IN  Return(s4, by)
        ELSE Return(CallInPlace(st, by, "isr.interpolateFromMask", "SAT"), by)

\* maskAndInterpDefect(exposure, detector)
maskAndInterpDefect(st) ==
    LET by == "maskAndInterpDefect"
        s1 == CallInPlace(st, by, "isr.maskPixelsFromDefectList", "BAD")
        s2 == Call(s1, by, "isr.getDefectListFromMask", "BAD")
    IN  IF transposeForInterpolation
        THEN LET s3 == Call(s2, by, "isr.transposeMaskedImage", "")
                 s4 == Call(s3, by, "isr.transposeDefectList", "")
                 s5 == CallInPlace(s4, by, "isr.interpolateDefectList", "")
                 s6 == Call(s5, by, "isr.transposeMaskedImage", "")
                 s7 == [s6 EXCEPT !.mods = Append(@, "setMaskedImage")]
             IN  Return(s7, by)
        ELSE Return(CallInPlace(s2, by, "isr.interpolateDefectList", ""), by)

\* The statements of maskAndInterpNan after the NaN check (lines 292-303):
\* the defect list is bound to undefects but read as uudefects.
interpNan(st, nnans) ==
    LET by == "maskAndInterpNan"
    IN  IF nnans > 0
        THEN LET s1 == Call(st, by, "isr.getDefectListFromMask", "UNMASKEDNAN")
             IN  IF transposeForInterpolation
                 THEN Raise(Call(s1, by, "isr.transposeMaskedImage", ""), "NameError")
                 ELSE Raise(s1, "NameError")
        ELSE Return(st, by)

\* maskAndInterpNan(exposure); nnans is what UnmaskedNanCounterF counts.
maskAndInterpNanNoRaise(st, nnans) ==
    LET by == "maskAndInterpNan"
        s1 == [st EXCEPT !.mods = Append(@, "addMaskPlane")]
        s2 == CallInPlace(s1, by, "UnmaskedNanCounterF.apply", "")
        s3 == [s2 EXCEPT !.meta = {<<"NUMNANS", nnans>>}]
    IN  interpNan(s3, nnans)
maskAndInterpNanRaiseFirst(st, nnans) ==
    LET by == "maskAndInterpNan"
        s1 == [st EXCEPT !.mods = Append(@, "addMaskPlane")]
        s2 == CallInPlace(s1, by, "UnmaskedNanCounterF.apply", "")
        s3 == [s2 EXCEPT !.meta = {<<"NUMNANS", nnans>>}]
    IN  IF ~(nnans = 0) THEN Raise(s2, "RuntimeError")
        ELSE interpNan(s3, nnans)
maskAndInterpNan(st, nnans) ==
    LET by == "maskAndInterpNan"
        s1 == [st EXCEPT !.mods = Append(@, "addMaskPlane")]
        s2 == CallInPlace(s1, by, "UnmaskedNanCounterF.apply", "")
        s3 == [s2 EXCEPT !.meta = {<<"NUMNANS", nnans>>}]
    IN  IF ~(nnans = 0) THEN Raise(s3, "RuntimeError")
        ELSE interpNan(s3, nnans)

\* The loop of run over the amplifiers of the CCD; ampKinds[a] is what
\* cast_Amp(ampExp.getDetector()) yields for amplifier a.
RECURSIVE runAmps(_, _, _)
runAmps(st, ampKinds, a) ==
    IF a > Len(ampKinds) THEN st
    ELSE LET s1 == Then(st, saturationDetection(st, ampKinds[a]))
             s2 == Then(s1, overscanCorrection(s1, ampKinds[a]))
         IN  runAmps(s2, ampKinds, a + 1)

\* The call of sensorRef.put in run.
put(st) == IF doWrite THEN Call(st, "run", "sensorRef.put", "visitCCD") ELSE st

\* run(sensorRef)
run(st, in) ==
    LET s1 == IF "raw" \in in.avail THEN Call(st, "run", "sensorRef.get", "raw")
              ELSE Raise(st, "LookupError")
        s2 == Then(s1, Call(s1, "run", "isr.floatImageFromInt", ""))
        s3 == Then(s2, runAmps(s2, in.ampKinds, 1))
        s4 == Then(s3, biasCorrection(s3))
        s5 == Then(s4, darkCorrection(s4, in.avail))
        s6 == Then(s5, updateVariance(s5))
        s7 == Then(s6, flatCorrection(s6, in.avail))
        s8 == Then(s7, Return(Call(s7, "run", "assembleCcd.run", ""), "assembleCcd"))
        s9 == Then(s8, maskAndInterpDefect(s8))
        s10 == Then(s9, saturationInterpolation(s9))
        s11 == Then(s10, maskAndInterpNan(s10, in.nnans))
        s12 == Then(s11, put(s11))
        s13 == Then(s12, Call(s12, "run", "display", "visitCCD"))
    IN  Then(s13, Return(s13, "run"))

IsrConstructed ==
    /\ doWrite \in BOOLEAN
    /\ transposeForInterpolation \in BOOLEAN
    /\ metadata = {}
    /\ isrMethod = "none"
    /\ isrInput = NoInput
    /\ isrOutcome = "none"
    /\ isrCalls = <<>>
    /\ isrMods = <<>>
    /\ isrSteps = <<>>
    /\ isrInvocations = 0

\* The caller invokes method with input in; st is the state the call leaves.
Invoke(method, in, st) ==
    /\ isrInvocations < MaxCalls
    /\ isrInvocations' = isrInvocations + 1
    /\ isrMethod' = method
    /\ isrInput' = in
    /\ isrOutcome' = IF st.outcome = "ok" THEN "returned" ELSE st.outcome
    /\ isrCalls' = st.calls
    /\ isrMods' = st.mods
    /\ isrSteps' = st.steps
    /\ metadata' = st.meta
    /\ UNCHANGED <<doWrite, transposeForInterpolation>>

IsrRun ==
    \E avail \in SUBSET DataSets, kinds \in [Amps -> {"Amp", "None"}], n \in 0..MaxNans :
        LET in == [NoInput EXCEPT !.avail = avail, !.ampKinds = kinds, !.nnans = n]
        IN  Invoke("run", in, run(NewCall, in))

IsrBiasCorrection == Invoke("biasCorrection", NoInput, biasCorrection(NewCall))

IsrDarkCorrection ==
    \E avail \in SUBSET DataSets :
        Invoke("darkCorrection", [NoInput EXCEPT !.avail = avail],
               darkCorrection(NewCall, avail))

IsrUpdateVariance == Invoke("updateVariance", NoInput, updateVariance(NewCall))

IsrFlatCorrection ==
    \E avail \in SUBSET DataSets :
        Invoke("flatCorrection", [NoInput EXCEPT !.avail = avail],
               flatCorrection(NewCall, avail))

IsrSaturationCorrection ==
    \E d \in DetectorKinds :
        Invoke("saturationCorrection", [NoInput EXCEPT !.detector = d],
               saturationCorrection(NewCall, d))

IsrSaturationDetection ==
    \E d \in DetectorKinds :
        Invoke("saturationDetection", [NoInput EXCEPT !.detector = d],
               saturationDetection(NewCall, d))

IsrOverscanCorrection ==
    \E d \in DetectorKinds :
        Invoke("overscanCorrection", [NoInput EXCEPT !.detector = d],
               overscanCorrection(NewCall, d))

IsrSaturationInterpolation ==
    Invoke("saturationInterpolation", NoInput, saturationInterpolation(NewCall))

IsrMaskAndInterpDefect ==
    Invoke("maskAndInterpDefect", NoInput, maskAndInterpDefect(NewCall))

IsrMaskAndInterpNan ==
    \E n \in 0..MaxNans :
        Invoke("maskAndInterpNan", [NoInput EXCEPT !.nnans = n],
               maskAndInterpNan(NewCall, n))

----------------------------------------------------------------------------
(* Specifications *)

IsrIdle ==
    /\ doWrite = TRUE /\ transposeForInterpolation = FALSE /\ metadata = {}
    /\ isrMethod = "none" /\ isrInput = NoInput /\ isrOutcome = "none"
    /\ isrCalls = <<>> /\ isrMods = <<>> /\ isrSteps = <<>> /\ isrInvocations = 0

LinQuiet ==
    /\ image = [p \in Pixels |-> 0] /\ mask = [p \in Pixels |-> {}]
    /\ variance = image
    /\ linearityType = [a \in Amps |-> "NONE"]
    /\ linearityCoeffs = [a \in Amps |-> <<0, 0, 0>>]
    /\ begImage = image /\ begMask = mask /\ begVariance = variance
    /\ LinIdle

NextLinearize ==
    \/ LinRun /\ UNCHANGED isrVars
    \/ LinDoCorrect /\ UNCHANGED isrVars

InitLinearize == LinSetUp /\ IsrIdle

SpecLinearize == InitLinearize /\ [][NextLinearize]_vars

NextIsr ==
    \/ IsrRun /\ UNCHANGED linVars
    \/ IsrBiasCorrection /\ UNCHANGED linVars
    \/ IsrDarkCorrection /\ UNCHANGED linVars
    \/ IsrUpdateVariance /\ UNCHANGED linVars
    \/ IsrFlatCorrection /\ UNCHANGED linVars
    \/ IsrSaturationCorrection /\ UNCHANGED linVars
    \/ IsrSaturationDetection /\ UNCHANGED linVars
    \/ IsrOverscanCorrection /\ UNCHANGED linVars
    \/ IsrSaturationInterpolation /\ UNCHANGED linVars
    \/ IsrMaskAndInterpDefect /\ UNCHANGED linVars
    \/ IsrMaskAndInterpNan /\ UNCHANGED linVars

InitIsr == IsrConstructed /\ LinQuiet

SpecIsr == InitIsr /\ [][NextIsr]_vars

----------------------------------------------------------------------------
(* Properties of ProportionalLinearizeTask, checked under SpecLinearize *)

LinErrors == {"RuntimeError", "ValueError"}

\* every amplifier is PROPORTIONAL with the same coefficients (s, 0, t)
UniformProportional ==
    /\ \A a \in Amps : linearityType[a] = "PROPORTIONAL"
    /\ \A a \in Amps : linearityCoeffs[a] = linearityCoeffs[1]
    /\ Len(linearityCoeffs[1]) = 3
    /\ linearityCoeffs[1][2] = 0
Corrected(v, s) == v * (1 + s * v)

\* C1, as stated: after one run on a detector whose amplifiers are all
\* PROPORTIONAL with (s, 0, t), every pixel equals v*(1+s*v), is SUSPECT if
\* its original value v > t and is not SUSPECT if v <= t.
C1_FlaggedAboveThreshold ==
    (linRuns = 1 /\ UniformProportional) =>
        LET s == linearityCoeffs[1][1]
            t == linearityCoeffs[1][3]
        IN  \A p \in Pixels :
                /\ image[p] = Corrected(begImage[p], s)
                /\ begImage[p] > t => "SUSPECT" \in mask[p]
                /\ begImage[p] <= t => "SUSPECT" \notin mask[p]

\* C1, amended: after one run on such a detector the run has returned, every
\* pixel equals v*(1+s*v), and a pixel is SUSPECT exactly if it was SUSPECT
\* before the run or t > 0 and its original value v > t.
C1_FlaggedAbovePositiveThreshold ==
    (linRuns = 1 /\ UniformProportional) =>
        LET s == linearityCoeffs[1][1]
            t == linearityCoeffs[1][3]
        IN  /\ linOutcome = "returned"
            /\ \A p \in Pixels :
                /\ image[p] = Corrected(begImage[p], s)
                /\ "SUSPECT" \in mask[p] <=>
                       ("SUSPECT" \in begMask[p] \/ (t > 0 /\ begImage[p] > t))

C1_Witness ==
    /\ linRuns = 1 /\ UniformProportional
    /\ linearityCoeffs[1][1] # 0 /\ linearityCoeffs[1][3] > 0
    /\ \E p, q, r \in Pixels :
          /\ begImage[p] > linearityCoeffs[1][3]
          /\ "SUSPECT" \notin begMask[p] /\ "SUSPECT" \in mask[p]
          /\ image[p] # begImage[p]
          /\ begImage[q] = linearityCoeffs[1][3] /\ "SUSPECT" \notin mask[q]
          /\ begImage[r] < linearityCoeffs[1][3] /\ "SUSPECT" \notin mask[r]

AllNone == \A a \in Amps : linearityType[a] = "NONE"

\* C2: when every amplifier has linearity type NONE, run returns without
\* error and leaves the image, mask and variance planes as they were.
C2_NoneLeavesPlanes ==
    (AllNone /\ linRuns >= 1) =>
        /\ linOutcome = "returned"
        /\ image = begImage /\ mask = begMask /\ variance = begVariance

C2_Witness ==
    /\ AllNone /\ linRuns = 1 /\ linOutcome = "returned"
    /\ \A a \in Amps : linearityCoeffs[a] = <<1, 0, 1>>
    /\ \E p \in Pixels : image[p] > 1 /\ mask[p] = {}

\* C3: doCorrect has exactly three outcomes, decided by the first
\* amplifier: False for NONE, True for PROPORTIONAL with at least three
\* coefficients, an error for PROPORTIONAL with fewer and for any other type.
C3_DoCorrectOutcomes ==
    doCorrectResult # "none" =>
        LET type == linearityType[1]
            numCoeffs == Len(linearityCoeffs[1])
        IN  /\ doCorrectResult \in {"False", "True", "RuntimeError"}
            /\ doCorrectResult = "False" <=> type = "NONE"
            /\ doCorrectResult = "True" <=> (type = "PROPORTIONAL" /\ numCoeffs >= 3)
            /\ doCorrectResult = "RuntimeError" <=>
                   \/ type = "PROPORTIONAL" /\ numCoeffs < 3
                   \/ type \notin {"NONE", "PROPORTIONAL"}

C3_Witness ==
    /\ doCorrectResult = "RuntimeError"
    /\ linearityType[1] = "PROPORTIONAL" /\ Len(linearityCoeffs[1]) < 3
    /\ linearityType[NumAmps] = "NONE"

SomeCoeff1NonZero ==
    \E a \in Amps : Len(linearityCoeffs[a]) >= 2 /\ linearityCoeffs[a][2] # 0

\* C4, as stated: run fails with an error whenever any amplifier reports a
\* non-zero coeff[1], whatever the other amplifiers report.
C4_Coeff1AlwaysFails ==
    (linRuns >= 1 /\ SomeCoeff1NonZero) => linOutcome \in LinErrors

\* C4, amended: run fails with an error whenever any amplifier reports a
\* non-zero coeff[1], unless the first amplifier's linearity type is NONE.
C4_Coeff1FailsUnlessNone ==
    (linRuns >= 1 /\ SomeCoeff1NonZero /\ linearityType[1] # "NONE") =>
        linOutcome \in LinErrors

C4_Witness ==
    /\ linRuns = 1 /\ linOutcome = "RuntimeError" /\ linFailedAmp = NumAmps
    /\ linearityType[1] = "PROPORTIONAL"
    /\ \A a \in Amps : Len(linearityCoeffs[a]) = 3
    /\ \A a \in Amps : linearityCoeffs[a][2] # 0 <=> a = NumAmps

\* every amplifier is PROPORTIONAL with squareCoeff = coeff[1] = maxUncorr = 0
AllSkipped ==
    \A a \in Amps :
        /\ linearityType[a] = "PROPORTIONAL"
        /\ Len(linearityCoeffs[a]) >= 3
        /\ linearityCoeffs[a][1] = 0
        /\ linearityCoeffs[a][2] = 0
        /\ linearityCoeffs[a][3] = 0

\* C5: when every amplifier is PROPORTIONAL with squareCoeff = 0,
\* coeff[1] = 0 and maxUncorr = 0, every run returns having corrected no
\* amplifier, and the planes stay as they were however often run is applied.
C5_SkippedRunsAreNoOps ==
    AllSkipped =>
        /\ image = begImage /\ mask = begMask /\ variance = begVariance
        /\ linRuns >= 1 => (linOutcome = "returned" /\ linLog = "none")

C5_Witness ==
    /\ AllSkipped /\ linRuns >= 2 /\ linOutcome = "returned"
    /\ \E a \in Amps : Len(linearityCoeffs[a]) > 3
    /\ \E p \in Pixels : image[p] > 1

\* the amplifier whose bounding box holds pixel p
AmpOf(p) == CHOOSE a \in Amps : p \in AmpBBox(a)
SquareCoeffOf(a) == IF Len(linearityCoeffs[a]) >= 1 THEN linearityCoeffs[a][1] ELSE 0
MaxUncorrOf(a) == IF Len(linearityCoeffs[a]) >= 3 THEN linearityCoeffs[a][3] ELSE 0

\* C11: for any detector and coefficients run never changes the variance
\* plane; image pixels change only inside the bounding boxes of amplifiers
\* whose squareCoeff is non-zero; the only mask bit set is SUSPECT, and only
\* inside the bounding boxes of amplifiers whose maxUncorr > 0; a corrected
\* pixel is corrected with the coefficients of its own amplifier.  Stated
\* of every call of run, against the planes as they were before that call.
C11_RunFrame ==
    [][linRuns' = linRuns + 1 =>
          /\ variance' = variance
          /\ \A p \in Pixels :
                /\ image'[p] # image[p] =>
                       /\ SquareCoeffOf(AmpOf(p)) # 0
                       /\ image'[p] = Corrected(image[p], SquareCoeffOf(AmpOf(p)))
                /\ mask[p] \subseteq mask'[p]
                /\ mask'[p] \ mask[p] \subseteq {"SUSPECT"}
                /\ mask'[p] # mask[p] =>
                       /\ MaxUncorrOf(AmpOf(p)) > 0
                       /\ image[p] > MaxUncorrOf(AmpOf(p))]_vars

C11_Witness ==
    /\ linRuns = 1 /\ linOutcome = "returned"
    /\ SquareCoeffOf(1) # 0 /\ MaxUncorrOf(1) = 0
    /\ SquareCoeffOf(NumAmps) = 0 /\ MaxUncorrOf(NumAmps) > 0
    /\ \E p \in AmpBBox(1) : image[p] # begImage[p] /\ mask[p] = begMask[p]
    /\ \E q \in AmpBBox(NumAmps) :
          /\ begImage[q] # 0 /\ image[q] = begImage[q]
          /\ "SUSPECT" \in mask[q] /\ "SUSPECT" \notin begMask[q]

\* C12: run does not roll back: when the first amplifier is PROPORTIONAL and
\* run raises because amplifier k has a non-zero coeff[1], the image and
\* mask pixels of amplifier k and of every later amplifier are unchanged,
\* and every amplifier before k has its SUSPECT flagging and its quadratic
\* correction.
C12_NoRollBack ==
    (linRuns = 1 /\ linOutcome = "RuntimeError" /\ linFailedAmp >= 1) =>
        /\ linearityType[1] = "PROPORTIONAL"
        /\ Len(linearityCoeffs[linFailedAmp]) >= 3
        /\ linearityCoeffs[linFailedAmp][2] # 0
        /\ \A p \in Pixels :
              IF AmpOf(p) >= linFailedAmp
              THEN image[p] = begImage[p] /\ mask[p] = begMask[p]
              ELSE /\ image[p] = Corrected(begImage[p], SquareCoeffOf(AmpOf(p)))
                   /\ mask[p] = begMask[p] \cup
                          (IF /\ MaxUncorrOf(AmpOf(p)) > 0
                              /\ begImage[p] > MaxUncorrOf(AmpOf(p))
                           THEN {"SUSPECT"} ELSE {})

C12_Witness ==
    /\ linRuns = 1 /\ linOutcome = "RuntimeError" /\ linFailedAmp = NumAmps
    /\ linearityCoeffs[1] = <<1, 0, 1>>
    /\ linearityCoeffs[NumAmps] = <<1, 1, 1>>
    /\ \E p \in AmpBBox(1) :
          image[p] # begImage[p] /\ "SUSPECT" \in mask[p] /\ "SUSPECT" \notin begMask[p]
    /\ \E q \in AmpBBox(NumAmps) :
          begImage[q] > 1 /\ image[q] = begImage[q] /\ mask[q] = begMask[q]

----------------------------------------------------------------------------
(* Properties of IsrTask, checked under SpecIsr *)

AllAmps == [a \in Amps |-> "Amp"]

\* The sequence of steps of run: for every amplifier saturation detection
\* then overscan correction, then the CCD-level steps.
RunSequence ==
    [i \in 1..(2 * NumAmps) |->
        IF i % 2 = 1 THEN "saturationDetection" ELSE "overscanCorrection"]
    \o <<"biasCorrection", "darkCorrection", "updateVariance", "flatCorrection",
         "assembleCcd", "maskAndInterpDefect", "saturationInterpolation",
         "maskAndInterpNan", "run">>

\* C6: on a sensor whose raw, bias, dark and flat data are available, whose
\* amplifiers are amplifiers and which has no unmasked NaNs, run executes
\* the fixed sequence of steps to completion and returns.
C6_RunCompletesSequence ==
    (/\ isrMethod = "run"
     /\ isrInput.avail = DataSets
     /\ isrInput.ampKinds = AllAmps
     /\ isrInput.nnans = 0) =>
        /\ isrOutcome = "returned"
        /\ isrSteps = RunSequence

\* C7: maskAndInterpNan records the count n of unmasked NaNs under NUMNANS
\* in every call and fails if and only if n is not 0, the metadata already
\* being set when it fails.
C7_NumNansRecorded ==
    isrMethod = "maskAndInterpNan" =>
        /\ metadata = {<<"NUMNANS", isrInput.nnans>>}
        /\ isrOutcome = "RuntimeError" <=> isrInput.nnans # 0
        /\ isrOutcome = "returned" <=> isrInput.nnans = 0

C7_Witness ==
    /\ isrMethod = "maskAndInterpNan" /\ isrInput.nnans = MaxNans
    /\ isrOutcome = "RuntimeError" /\ metadata = {<<"NUMNANS", MaxNans>>}

AmpOnlyHelpers == {"saturationCorrection", "saturationDetection", "overscanCorrection"}

\* C8: an amplifier-only helper given a detector that is not an amplifier
\* fails with an error, calls no numeric routine and leaves the exposure
\* unmodified.
C8_AmpOnlyHelpersReject ==
    (isrMethod \in AmpOnlyHelpers /\ isrInput.detector # "Amp") =>
        /\ isrOutcome = "RuntimeError"
        /\ isrCalls = <<>>
        /\ isrMods = <<>>

C8_Witness ==
    /\ isrMethod = "overscanCorrection" /\ isrInput.detector = "Ccd"
    /\ isrOutcome = "RuntimeError" /\ isrCalls = <<>>

Puts == {i \in DOMAIN isrCalls : isrCalls[i].fn = "sensorRef.put"}

C10_NanInterpolationUnreachable ==
    \A i \in DOMAIN isrCalls :
        isrCalls[i].by = "maskAndInterpNan" =>
            /\ ~(isrCalls[i].fn = "isr.getDefectListFromMask"
                 /\ isrCalls[i].arg = "UNMASKEDNAN")
            /\ isrCalls[i].fn # "isr.interpolateDefectList"

C10_Witness ==
    /\ isrMethod = "maskAndInterpNan" /\ isrInput.nnans > 0
    /\ transposeForInterpolation
    /\ \E i \in DOMAIN isrCalls : isrCalls[i].fn = "UnmaskedNanCounterF.apply"

====
